---- MODULE Spec2Model ----
(***************************************************************************)
(* Model of app.py: a Flask service with three POST routes                 *)
(*   /extract        text extraction from a PDF, capped at MAX_CHARS       *)
(*   /excel-cleaner  cell cleaning and de-duplication of a table           *)
(*   /pdf-compress   Ghostscript compression through the "static" folder   *)
(* and a before_request hook that removes files older than 24 h from       *)
(* "static".  Strings are sequences of one-character strings.              *)
(***************************************************************************)
EXTENDS Integers, Sequences, FiniteSets, TLC

VARIABLES
    dirExists,   \* the folder "static" exists
    fs,          \* files of "static": path -> [size, owner]
    old,         \* paths whose mtime is below the janitor's cutoff
    log,         \* lines of compressions.log
    uuidCalls,   \* how many values uuid4() has returned
    generated,   \* every scratch path a request has generated
    req,         \* per worker thread: the request it is handling
    raw,         \* clean_cell: the raw cell value
    typed,       \* clean_cell: characters appended to the raw value
    opts,        \* clean_cell: [sanitize, emails]
    once,        \* clean_cell(raw)
    twice        \* clean_cell(clean_cell(raw))

vars == <<dirExists, fs, old, log, uuidCalls, generated, req,
          raw, typed, opts, once, twice>>

serverVars  == <<dirExists, fs, old, log, uuidCalls, generated, req>>
cleanVars   == <<raw, typed, opts, once, twice>>

----------------------------------------------------------------------------
(* Bounds *)

MaxReq   == 2    \* worker threads handling requests concurrently
NumUuids == 4    \* distinct values uuid4().hex can take
MaxPages == 3    \* pages of an uploaded PDF
MaxTyped == 3    \* characters appended to a seed cell value

(* Program constants *)

MAX_CHARS == 10000
MAX_CONTENT_LENGTH == 20 * 1024 * 1024

Req == 1..MaxReq

----------------------------------------------------------------------------
(* Characters and Python string methods *)

\* "U+00C9", "U+00E9" and "U+00D7" stand for the single characters with these
\* code points (E acute, e acute, multiplication sign).
UpperChars == <<"A", "B", "C", "D", "F", "L", "P", "S", "T", "V", "X", "U+00C9">>
LowerChars == <<"a", "b", "c", "d", "f", "l", "p", "s", "t", "v", "x", "U+00E9">>
DigitChars == <<"0", "1", "2", "3", "4", "5", "6", "7", "8", "9">>

Range(s) == {s[i] : i \in DOMAIN s}

IsUpper(c) == c \in Range(UpperChars)
IsLower(c) == c \in Range(LowerChars)
IsDigit(c) == c \in Range(DigitChars)
IsSpace(c) == c \in {" ", "\n", "\t"}

ToLower(c) ==
    IF IsUpper(c)
    THEN LowerChars[CHOOSE i \in DOMAIN UpperChars : UpperChars[i] = c]
    ELSE c

ToUpper(c) ==
    IF c \in Range(LowerChars)
    THEN UpperChars[CHOOSE i \in DOMAIN LowerChars : LowerChars[i] = c]
    ELSE c

\* str.lower()
Lower(s) == [i \in DOMAIN s |-> ToLower(s[i])]

\* str.endswith(suffix)
EndsWith(s, suffix) ==
    /\ Len(s) >= Len(suffix)
    /\ SubSeq(s, Len(s) - Len(suffix) + 1, Len(s)) = suffix

\* str.capitalize(): first character upper-cased, the rest lower-cased
Capitalize(w) ==
    [i \in DOMAIN w |-> IF i = 1 THEN ToUpper(w[i]) ELSE ToLower(w[i])]

RECURSIVE LStrip(_, _)
LStrip(s, drop) ==
    IF s # <<>> /\ Head(s) \in drop THEN LStrip(Tail(s), drop) ELSE s

RECURSIVE RStrip(_, _)
RStrip(s, drop) ==
    IF s # <<>> /\ s[Len(s)] \in drop
    THEN RStrip(SubSeq(s, 1, Len(s) - 1), drop)
    ELSE s

Whitespace == {" ", "\n", "\t"}

\* str.strip()
Strip(s) == RStrip(LStrip(s, Whitespace), Whitespace)

\* str.split(): the maximal runs of non-whitespace characters
RECURSIVE SplitFrom(_, _, _)
SplitFrom(s, word, acc) ==
    IF s = <<>>
    THEN IF word = <<>> THEN acc ELSE Append(acc, word)
    ELSE IF IsSpace(Head(s))
         THEN SplitFrom(Tail(s), <<>>,
                        IF word = <<>> THEN acc ELSE Append(acc, word))
         ELSE SplitFrom(Tail(s), Append(word, Head(s)), acc)

Split(s) == SplitFrom(s, <<>>, <<>>)

\* sep.join(words)
RECURSIVE Join(_, _)
Join(sep, words) ==
    IF words = <<>> THEN <<>>
    ELSE IF Len(words) = 1 THEN words[1]
    ELSE words[1] \o sep \o Join(sep, Tail(words))

----------------------------------------------------------------------------
(* clean_cell, the per-cell function of /excel-cleaner *)

Absent  == [kind |-> "absent"]           \* NaN / None
Text(s) == [kind |-> "str", s |-> s]
Num(n)  == [kind |-> "int", n |-> n]

\* str(value) of a non-negative integer
RECURSIVE ToDec(_)
ToDec(n) ==
    IF n < 10 THEN <<DigitChars[n + 1]>>
    ELSE ToDec(n \div 10) \o <<DigitChars[(n % 10) + 1]>>

\* str(value)
Str(cell) == IF cell.kind = "int" THEN ToDec(cell.n) ELSE cell.s

\* \w : letters, digits and the underscore
IsWord(c) == IsUpper(c) \/ IsLower(c) \/ IsDigit(c) \/ c = "_"

\* the range À-ÿ of the character class
InLatin1Range(c) == c \in {"U+00C9", "U+00E9", "U+00D7"}

\* the characters [^\w@.\sÀ-ÿ-] does not match, which re.sub keeps
KeepChar(c) ==
    IsWord(c) \/ c = "@" \/ c = "." \/ IsSpace(c) \/ InLatin1Range(c) \/ c = "-"

Sanitize(s) == SelectSeq(s, KeepChar)

\* [^@\s]+@[^@\s]+\.[^@\s]+ over the whole of s
EmailFullMatch(s) ==
    /\ \A i \in DOMAIN s : ~IsSpace(s[i])
    /\ Cardinality({i \in DOMAIN s : s[i] = "@"}) = 1
    /\ LET at == CHOOSE i \in DOMAIN s : s[i] = "@"
       IN /\ at > 1
          /\ \E dot \in (at + 2)..(Len(s) - 1) : s[dot] = "."

\* re.match(r"^[^@\s]+@[^@\s]+\.[^@\s]+$", s): "$" matches at the end of the
\* string and also just before a newline that ends the string
EmailMatch(s) ==
    \/ EmailFullMatch(s)
    \/ /\ s # <<>>
       /\ s[Len(s)] = "\n"
       /\ EmailFullMatch(SubSeq(s, 1, Len(s) - 1))

TitleCase(s) ==
    LET words == Split(s)
    IN Join(<<" ">>, [i \in DOMAIN words |-> Capitalize(words[i])])

clean_cell(value, sanitize_characters, clean_emails) ==
    IF value.kind = "absent" THEN Absent
    ELSE LET stripped  == Strip(Str(value))
             sanitized == IF sanitize_characters THEN Sanitize(stripped)
                          ELSE stripped
         IN IF clean_emails /\ "@" \in Range(sanitized)
            THEN IF ~EmailMatch(sanitized) THEN Absent
                 ELSE Text(Lower(sanitized))
            ELSE Text(TitleCase(sanitized))

\* df.applymap(clean_cell)
ApplyMap(table, sanitize_characters, clean_emails) ==
    [i \in DOMAIN table |->
        [j \in DOMAIN table[i] |->
            clean_cell(table[i][j], sanitize_characters, clean_emails)]]

\* df.drop_duplicates(): the first occurrence of each row, in order
DropDuplicates(table) ==
    LET first(i) == \A k \in 1..(i - 1) : table[k] # table[i]
        F[i \in 0..Len(table)] ==
            IF i = 0 THEN <<>>
            ELSE IF first(i) THEN Append(F[i - 1], table[i]) ELSE F[i - 1]
    IN F[Len(table)]

----------------------------------------------------------------------------
(* /extract: joining and truncating the page texts *)

\* "\n".join(page.get_text() for page in doc)
JoinPages(pages) == Join(<<"\n">>, pages)

\* the cap applied one character early
ExtractBody_AtCap(full_text) ==
    LET is_partial == Len(full_text) >= MAX_CHARS
        text == IF is_partial THEN SubSeq(full_text, 1, MAX_CHARS)
                ELSE full_text
    IN [text |-> text, partial |-> is_partial, charCount |-> Len(text)]

ExtractBody(full_text) ==
    LET is_partial == Len(full_text) > MAX_CHARS
        text == IF is_partial THEN SubSeq(full_text, 1, MAX_CHARS)
                ELSE full_text
    IN [text |-> text, partial |-> is_partial, charCount |-> Len(text)]

----------------------------------------------------------------------------
(* Responses *)

NoResp == [status |-> 0, body |-> [none |-> TRUE]]
Error(status, message) == [status |-> status, body |-> [error |-> message]]

\* the errorhandler of RequestEntityTooLarge
handle_file_too_large == Error(413, "Fichier trop lourd. Limite a 20 Mo.")

\* Flask's answer to an exception no handler catches
InternalServerError == [status |-> 500, body |-> [html |-> "Internal Server Error"]]

\* werkzeug raises RequestEntityTooLarge when request.files is first read
TooLarge(content_length) == content_length > MAX_CONTENT_LENGTH

DotPdf  == <<".", "p", "d", "f">>
DotCsv  == <<".", "c", "s", "v">>
DotXlsx == <<".", "x", "l", "s", "x">>

\* the route function of /extract, after the before_request hook
extract_pdf_response(content_length, has_file, filename, parse_ok, pages) ==
    IF TooLarge(content_length) THEN handle_file_too_large
    ELSE IF ~has_file THEN Error(400, "Aucun fichier envoye.")
    ELSE IF ~EndsWith(Lower(filename), DotPdf)
         THEN Error(400, "Le fichier doit etre un PDF.")
    ELSE IF ~parse_ok THEN Error(500, "Erreur lors de l'analyse du fichier.")
    ELSE [status |-> 200, body |-> ExtractBody(JoinPages(pages))]

\* the route function of /excel-cleaner, after the before_request hook
excel_cleaner_response(content_length, has_file, filename, form, read_ok, table) ==
    IF TooLarge(content_length) THEN handle_file_too_large
    ELSE IF ~has_file THEN Error(400, "Aucun fichier fourni.")
    ELSE IF EndsWith(Lower(filename), DotCsv) /\ ~read_ok
         THEN Error(500, "Erreur de traitement Excel.")
    ELSE IF EndsWith(Lower(filename), DotXlsx) /\ ~read_ok
         THEN Error(400, "Erreur de lecture du fichier Excel.")
    ELSE IF ~EndsWith(Lower(filename), DotCsv) /\ ~EndsWith(Lower(filename), DotXlsx)
         THEN Error(400, "Format non pris en charge. Utilisez .csv ou .xlsx")
    ELSE LET cleaned == ApplyMap(table, form.sanitizeCharacters, form.cleanEmails)
             df == IF form.removeDuplicates THEN DropDuplicates(cleaned)
                   ELSE cleaned
         IN [status |-> 200, body |-> [output |-> df]]

----------------------------------------------------------------------------
(* /pdf-compress: names, paths, Ghostscript settings, gain *)

\* werkzeug's secure_filename: path separators become spaces, whitespace
\* runs become "_", characters outside [A-Za-z0-9_.-] are removed, and
\* leading and trailing "." and "_" are stripped
IsFilenameChar(c) ==
    (IsUpper(c) /\ c # "U+00C9") \/ (IsLower(c) /\ c # "U+00E9")
        \/ IsDigit(c) \/ c \in {"_", ".", "-"}

secure_filename(filename) ==
    LET spaced == [i \in DOMAIN filename |->
                      IF filename[i] = "/" THEN " " ELSE filename[i]]
        joined == Join(<<"_">>, Split(spaced))
    IN RStrip(LStrip(SelectSeq(joined, IsFilenameChar), {".", "_"}), {".", "_"})

\* os.path.splitext(name)[0]
SplitextRoot(name) ==
    LET dots == {i \in DOMAIN name : name[i] = "."}
        last == IF dots = {} THEN 0 ELSE CHOOSE i \in dots : \A j \in dots : j <= i
    IN IF last > 0 /\ (\E j \in 1..(last - 1) : name[j] # ".")
       THEN SubSeq(name, 1, last - 1)
       ELSE name

HexDigits == <<"0", "1", "2", "3", "4", "5", "6", "7", "8", "9",
               "a", "b", "c", "d", "e", "f">>

\* uuid.uuid4().hex, a string of fixed length
Hex(u) == <<HexDigits[((u - 1) \div 16) + 1], HexDigits[((u - 1) % 16) + 1]>>

\* uuid.uuid4(): a value that no earlier call returned.  The suffix is the
\* only use of the value, so which unused value it is does not matter, and
\* the call numbered calls + 1 is given the value calls + 1.
uuid4(calls) == calls + 1

StaticSlash    == <<"s", "t", "a", "t", "i", "c", "/">>
InputInfix     == <<"_", "i", "n", "p", "u", "t", "_">>
CompressedInfix == <<"_", "c", "o", "m", "p", "r", "e", "s", "s", "e", "d", "_">>

\* the input path without the uuid suffix
InputPath_NoSuffix(basename, u) ==
    StaticSlash \o basename \o InputInfix \o DotPdf

\* f"static/{basename}_input_{uuid.uuid4().hex}.pdf"
InputPath(basename, u) ==
    StaticSlash \o basename \o InputInfix \o Hex(u) \o DotPdf

\* os.path.join("static", f"{basename}_compressed_{uuid.uuid4().hex}.pdf")
OutputPath(basename, u) ==
    StaticSlash \o basename \o CompressedInfix \o Hex(u) \o DotPdf

\* gs_quality_map.get(mode, "/ebook")
GsQuality(mode) ==
    CASE mode = "lossless" -> "/prepress"
      [] mode = "moderate" -> "/ebook"
      [] mode = "extreme"  -> "/screen"
      [] OTHER             -> "/ebook"

\* round(100 * (1 - compressed_size / original_size), 2) in hundredths of a
\* percent, for original_size > 0; ties go to the even neighbour
GainPercent(original_size, compressed_size) ==
    LET num  == 10000 * (original_size - compressed_size)
        low  == num \div original_size
        rest == num % original_size
    IN IF 2 * rest < original_size THEN low
       ELSE IF 2 * rest > original_size THEN low + 1
       ELSE IF low % 2 = 0 THEN low ELSE low + 1

Null == "null"

AlertMessage(mode, original_size, compressed_size) ==
    IF compressed_size >= original_size
    THEN IF mode = "lossless"
         THEN "Compression inefficace. Essayez le mode 'moderate' pour de meilleurs resultats."
         ELSE "Compression inefficace : le fichier est plus lourd apres compression."
    ELSE Null

\* the files of "static" and what is written to and removed from it
WriteFile(files, path, size, r) ==
    [p \in DOMAIN files \cup {path} |->
        IF p = path THEN [size |-> size, owner |-> r] ELSE files[p]]

RemoveFiles(files, paths) == [p \in DOMAIN files \ paths |-> files[p]]

----------------------------------------------------------------------------
(* Inputs of the requests *)

Str_A_PDF   == <<"A", " ", "b", ".", "P", "D", "F">>
Str_a_txt   == <<"a", ".", "t", "x", "t">>
Str_a_csv   == <<"a", ".", "c", "s", "v">>
Str_a_xlsx  == <<"a", ".", "x", "l", "s", "x">>

Filenames      == {Str_A_PDF, Str_a_txt, Str_a_csv, Str_a_xlsx}
ContentLengths == {1024, MAX_CONTENT_LENGTH + 1}
Modes          == {"lossless", "turbo"}
Resolutions    == {"", "72"}
UploadSizes    == {0, 4}
CompressedSizes == {3, 5}
FormValues     == {"absent", "true", "false"}
ServerDocs     == {<< <<"a">>, <<"b">> >>}
ServerTables   == {<< <<Text(<<"a", "!">>)>>, <<Text(<<"A">>)>> >>}

NoDoc   == <<>>
NoCell  == Absent
Unset   == [kind |-> "unset"]
NoOpts  == [sanitize |-> FALSE, emails |-> FALSE]

\* request.form.get(name, "true") == "true"
FormFlag(v) == (IF v = "absent" THEN "true" ELSE v) = "true"

----------------------------------------------------------------------------
(* The server: worker threads, the folder "static", compressions.log *)

Idle ==
    [pc |-> "idle", route |-> "none", contentLength |-> 0, hasFile |-> FALSE,
     filename |-> <<>>, pages |-> NoDoc, mode |-> "none", basename |-> <<>>,
     tempInput |-> <<>>, outputPath |-> <<>>,
     originalSize |-> -1, compressedSize |-> -1, quality |-> "none",
     convOk |-> FALSE, logFailed |-> FALSE, hookFailed |-> FALSE,
     effects |-> {}, resp |-> NoResp]

\* the request as it reaches the application
Arrived(route, content_length, has_file, filename) ==
    [Idle EXCEPT !.route = route, !.contentLength = content_length,
                 !.hasFile = has_file, !.filename = filename]

\* cleanup_old_files: os.listdir raises when "static" is missing; otherwise
\* every file older than the cutoff is removed
cleanup_raises == ~dirExists
cleanup_files  == RemoveFiles(fs, old)

\* the before_request hook raised: Flask answers 500 and the route never runs
HookFailed(r, arrived) ==
    /\ req' = [req EXCEPT ![r] = [arrived EXCEPT !.pc = "done",
                                                 !.hookFailed = TRUE,
                                                 !.resp = InternalServerError]]
    /\ UNCHANGED <<dirExists, fs, old, log, uuidCalls, generated>>

extract_pdf_from(r, docs) ==
    /\ req[r].pc = "idle"
    /\ \E cl \in ContentLengths, hf \in BOOLEAN, fn \in Filenames,
          parse_ok \in BOOLEAN, pages \in docs :
          LET arrived == [Arrived("extract", cl, hf, fn) EXCEPT
                             !.pages = IF hf THEN pages ELSE NoDoc]
              resp    == extract_pdf_response(cl, hf, fn, parse_ok, pages)
              parsed  == ~TooLarge(cl) /\ hf /\ EndsWith(Lower(fn), DotPdf)
          IN IF cleanup_raises THEN HookFailed(r, arrived)
             ELSE /\ fs' = cleanup_files
                  /\ old' = {}
                  /\ req' = [req EXCEPT ![r] =
                        [arrived EXCEPT !.pc = "done", !.resp = resp,
                            !.effects = IF parsed THEN {"parser"} ELSE {}]]
                  /\ UNCHANGED <<dirExists, log, uuidCalls, generated>>
    /\ UNCHANGED cleanVars

extract_pdf(r) == extract_pdf_from(r, ServerDocs)

excel_cleaner(r) ==
    /\ req[r].pc = "idle"
    /\ \E cl \in ContentLengths, hf \in BOOLEAN, fn \in Filenames,
          rd \in FormValues, ce \in FormValues, sc \in FormValues,
          read_ok \in BOOLEAN, table \in ServerTables :
          LET arrived == Arrived("excel-cleaner", cl, hf, fn)
              form    == [removeDuplicates   |-> FormFlag(rd),
                          cleanEmails        |-> FormFlag(ce),
                          sanitizeCharacters |-> FormFlag(sc)]
              resp    == excel_cleaner_response(cl, hf, fn, form, read_ok, table)
              parsed  == /\ ~TooLarge(cl) /\ hf
                         /\ \/ EndsWith(Lower(fn), DotCsv)
                            \/ EndsWith(Lower(fn), DotXlsx)
          IN IF cleanup_raises THEN HookFailed(r, arrived)
             ELSE /\ fs' = cleanup_files
                  /\ old' = {}
                  /\ req' = [req EXCEPT ![r] =
                        [arrived EXCEPT !.pc = "done", !.resp = resp,
                            !.effects = IF parsed THEN {"parser"} ELSE {}]]
                  /\ UNCHANGED <<dirExists, log, uuidCalls, generated>>
    /\ UNCHANGED <<cleanVars>>

\* pdf_compress up to the try block: the checks, the basename, the mode
pdf_compress_from(r, lengths, presences, names, modes) ==
    /\ req[r].pc = "idle"
    /\ \E cl \in lengths, hf \in presences, fn \in names, mode \in modes :
          LET arrived == Arrived("pdf-compress", cl, hf, fn)
              after   == arrived
              next    ==
                  IF TooLarge(cl)
                  THEN [after EXCEPT !.pc = "done", !.resp = handle_file_too_large]
                  ELSE IF ~hf
                  THEN [after EXCEPT !.pc = "done",
                            !.resp = Error(400, "Aucun fichier PDF fourni.")]
                  ELSE IF ~EndsWith(Lower(fn), DotPdf)
                  THEN [after EXCEPT !.pc = "done",
                            !.resp = Error(400, "Le fichier doit etre un PDF.")]
                  ELSE [after EXCEPT !.pc = "save", !.mode = mode,
                            !.basename = SplitextRoot(secure_filename(fn))]
          IN IF cleanup_raises THEN HookFailed(r, arrived)
             ELSE /\ fs' = cleanup_files
                  /\ old' = {}
                  /\ req' = [req EXCEPT ![r] = next]
                  /\ UNCHANGED <<dirExists, log, uuidCalls, generated>>
    /\ UNCHANGED <<cleanVars>>

pdf_compress(r) == pdf_compress_from(r, ContentLengths, BOOLEAN, Filenames, Modes)

\* os.makedirs, the input path, file.save, os.path.getsize, the output path
pdf_compress_save(r) ==
    /\ req[r].pc = "save"
    /\ uuidCalls + 2 <= NumUuids
    /\ \E size \in UploadSizes :
          LET temp_input  == InputPath(req[r].basename, uuid4(uuidCalls))
              output_path == OutputPath(req[r].basename, uuid4(uuidCalls + 1))
              files       == WriteFile(fs, temp_input, size, r)
          IN /\ dirExists' = TRUE
             /\ fs' = files
             /\ old' = old \ {temp_input}
             /\ uuidCalls' = uuidCalls + 2
             /\ generated' = generated \cup {temp_input, output_path}
             /\ req' = [req EXCEPT ![r] =
                   [@ EXCEPT !.pc = "run", !.tempInput = temp_input,
                             !.outputPath = output_path,
                             !.originalSize = files[temp_input].size,
                             !.effects = @ \cup {"scratch_write"}]]
    /\ UNCHANGED <<log, cleanVars>>

\* the Ghostscript command and subprocess.run(command, check=True)
pdf_compress_run(r) ==
    /\ req[r].pc = "run"
    /\ \E resolution \in Resolutions, exit \in {0, 1}, size \in CompressedSizes :
          LET quality == <<GsQuality(req[r].mode)>>
                            \o (IF resolution # "" THEN <<"-r", resolution>> ELSE <<>>)
              started == [req[r] EXCEPT !.quality = quality[1],
                                        !.effects = @ \cup {"subprocess"}]
          IN /\ (exit = 0) => req[r].tempInput \in DOMAIN fs
             /\ IF exit = 0
                THEN /\ fs' = WriteFile(fs, req[r].outputPath, size, r)
                     /\ old' = old \ {req[r].outputPath}
                     /\ req' = [req EXCEPT ![r] =
                           [started EXCEPT !.pc = "finish", !.convOk = TRUE]]
                ELSE /\ req' = [req EXCEPT ![r] =
                           [started EXCEPT !.pc = "done",
                               !.resp = Error(500,
                                   "Erreur lors de la compression Ghostscript.")]]
                     /\ UNCHANGED <<fs, old>>
    /\ UNCHANGED <<dirExists, log, uuidCalls, generated, cleanVars>>

IOFailure == Error(500, "Erreur lors de la compression du PDF.")

\* from the measure of the output to the response
pdf_compress_finish(r) ==
    /\ req[r].pc = "finish"
    /\ \E log_ok \in BOOLEAN :
          LET me       == req[r]
              measured == me.outputPath \in DOMAIN fs
              csize    == fs[me.outputPath].size
              removed  == measured /\ me.tempInput \in DOMAIN fs
              divides  == removed /\ me.originalSize # 0
              gain     == GainPercent(me.originalSize, csize)
              alert    == AlertMessage(me.mode, me.originalSize, csize)
              m1       == IF measured THEN [me EXCEPT !.compressedSize = csize]
                          ELSE me
              m2       == IF removed
                          THEN [m1 EXCEPT !.effects = @ \cup {"scratch_delete"}]
                          ELSE m1
          IN /\ fs' = IF removed THEN RemoveFiles(fs, {me.tempInput}) ELSE fs
             /\ old' = IF removed THEN old \ {me.tempInput} ELSE old
             /\ IF divides /\ log_ok
                THEN /\ log' = Append(log,
                            [mode |-> me.mode, gain |-> gain,
                             originalSize |-> me.originalSize,
                             compressedSize |-> csize])
                     /\ req' = [req EXCEPT ![r] =
                           [m2 EXCEPT !.pc = "done",
                               !.resp = [status |-> 200, body |->
                                   [url |-> me.outputPath,
                                    originalSize |-> me.originalSize,
                                    compressedSize |-> csize,
                                    alert |-> alert,
                                    gainPercent |-> gain]]]]
                ELSE /\ log' = log
                     /\ req' = [req EXCEPT ![r] =
                           [m2 EXCEPT !.pc = "done", !.resp = IOFailure,
                                      !.logFailed = divides /\ ~log_ok]]
    /\ UNCHANGED <<dirExists, uuidCalls, generated, cleanVars>>

\* the response is sent; the worker thread takes the next request
Respond(r) ==
    /\ req[r].pc = "done"
    /\ req' = [req EXCEPT ![r] = Idle]
    /\ fs' = [p \in DOMAIN fs |->
                 IF fs[p].owner = r THEN [fs[p] EXCEPT !.owner = 0] ELSE fs[p]]
    /\ UNCHANGED <<dirExists, old, log, uuidCalls, generated, cleanVars>>

\* time passes: the mtime of a file falls below now - 24 * 3600
TimePasses ==
    /\ \E p \in DOMAIN fs \ old : old' = old \cup {p}
    /\ UNCHANGED <<dirExists, fs, log, uuidCalls, generated, req,
                   cleanVars>>

Init ==
    /\ dirExists \in BOOLEAN
    /\ fs = <<>>
    /\ old = {}
    /\ log = <<>>
    /\ uuidCalls = 0
    /\ generated = {}
    /\ req = [r \in Req |-> Idle]
    /\ raw = NoCell
    /\ typed = 0
    /\ opts = NoOpts
    /\ once = Unset
    /\ twice = Unset

\* the uploads that reach the compression pipeline
PipelineNames == {Str_A_PDF}
\* concurrent /pdf-compress requests on MaxReq worker threads
Next ==
    \/ \E r \in Req : pdf_compress_from(r, {1024}, {TRUE}, PipelineNames, Modes)
    \/ \E r \in Req : pdf_compress_save(r)
    \/ \E r \in Req : pdf_compress_run(r)
    \/ \E r \in Req : pdf_compress_finish(r)
    \/ \E r \in Req : Respond(r)
    \/ TimePasses

Spec == Init /\ [][Next]_vars

\* requests to the three routes, one at a time
NextRoutes ==
    \/ extract_pdf(1)
    \/ excel_cleaner(1)
    \/ pdf_compress(1)
    \/ pdf_compress_save(1)
    \/ pdf_compress_run(1)
    \/ pdf_compress_finish(1)
    \/ Respond(1)
    \/ TimePasses

SpecRoutes == Init /\ [][NextRoutes]_vars

----------------------------------------------------------------------------
(* /extract on documents whose joined text is around MAX_CHARS *)

\* page.get_text(): n times the character c
Page(c, n) == [i \in 1..n |-> c]

PageTexts == {Page("a", 0), Page("a", 4999), Page("b", 5000), Page("b", 10001)}

Docs == UNION {[1..n -> PageTexts] : n \in 0..MaxPages}

NextExtract ==
    \/ extract_pdf_from(1, Docs)
    \/ Respond(1)

SpecExtract == Init /\ [][NextExtract]_vars

----------------------------------------------------------------------------
(* clean_cell applied to a cell, and again to its result *)

Str_email == <<"a", "@", "b", ".", "c">>

SeedCells == {Absent, Num(7), Text(<<>>), Text(Str_email)}
CellChars == {"a", "B", "@", ".", " ", "\n", "!", "_", "-", "U+00D7"}

InitClean ==
    /\ dirExists = TRUE
    /\ fs = <<>>
    /\ old = {}
    /\ log = <<>>
    /\ uuidCalls = 0
    /\ generated = {}
    /\ req = [r \in Req |-> Idle]
    /\ raw \in SeedCells
    /\ typed = 0
    /\ opts \in [sanitize : BOOLEAN, emails : BOOLEAN]
    /\ once = Unset
    /\ twice = Unset

\* one more character of the cell as it stands in the uploaded table
TypeChar ==
    /\ once = Unset
    /\ raw.kind = "str"
    /\ typed < MaxTyped
    /\ \E c \in CellChars : raw' = Text(Append(raw.s, c))
    /\ typed' = typed + 1
    /\ UNCHANGED <<opts, once, twice, serverVars>>

\* df.applymap(clean_cell) on the cell
CleanOnce ==
    /\ once = Unset
    /\ once' = clean_cell(raw, opts.sanitize, opts.emails)
    /\ UNCHANGED <<raw, typed, opts, twice, serverVars>>

\* the cleaned value run through clean_cell again, same options
CleanTwice ==
    /\ once # Unset
    /\ twice = Unset
    /\ twice' = clean_cell(once, opts.sanitize, opts.emails)
    /\ UNCHANGED <<raw, typed, opts, once, serverVars>>

NextClean == TypeChar \/ CleanOnce \/ CleanTwice

SpecClean == InitClean /\ [][NextClean]_vars

----------------------------------------------------------------------------
(* Properties *)

InFlight(r) == req[r].pc \in {"run", "finish", "done"} /\ req[r].tempInput # <<>>

\* C1: once a /pdf-compress request that saved its input artifact has its
\* response, the input artifact is no longer in "static", whichever way the
\* request ended.
C1_InputReleasedOnEveryExit ==
    \A r \in Req :
        (req[r].pc = "done" /\ req[r].tempInput # <<>>)
            => req[r].tempInput \notin DOMAIN fs

\* C2: a /pdf-compress request whose append to compressions.log failed is
\* still answered with the 200 success body.
C2_LogFailureKeepsSuccess ==
    \A r \in Req :
        (req[r].pc = "done" /\ req[r].logFailed)
            => /\ req[r].resp.status = 200
               /\ DOMAIN req[r].resp.body =
                      {"url", "originalSize", "compressedSize", "alert", "gainPercent"}

\* C3: on every route a request larger than MAX_CONTENT_LENGTH is answered
\* 413 with a JSON error body, and it wrote no scratch file, invoked no
\* parser and started no subprocess.
C3_TooLargeIs413 ==
    \A r \in Req :
        (req[r].pc = "done" /\ TooLarge(req[r].contentLength))
            => /\ req[r].resp.status = 413
               /\ "error" \in DOMAIN req[r].resp.body
               /\ req[r].effects = {}

\* the route accepts the extension of the uploaded file
AcceptsExtension(route, filename) ==
    IF route = "excel-cleaner"
    THEN EndsWith(Lower(filename), DotCsv) \/ EndsWith(Lower(filename), DotXlsx)
    ELSE EndsWith(Lower(filename), DotPdf)

WrongExtension(q) ==
    /\ ~TooLarge(q.contentLength)
    /\ q.hasFile
    /\ ~AcceptsExtension(q.route, q.filename)

\* C4: handling a request whose file has an extension the route does not
\* accept ends in status 400 and leaves the files of "static", their ages and
\* compressions.log as they were, with no parser or subprocess started.
C4_WrongExtensionNoEffect ==
    [][\A r \in Req :
          (req[r].pc = "idle" /\ req'[r].pc = "done" /\ WrongExtension(req'[r]))
              => /\ req'[r].resp.status = 400
                 /\ fs' = fs
                 /\ old' = old
                 /\ log' = log
                 /\ req'[r].effects = {}]_vars

C6_ExtractionResult ==
    \A r \in Req :
        (req[r].pc = "done" /\ req[r].route = "extract" /\ req[r].resp.status = 200)
            => LET J    == JoinPages(req[r].pages)
                   body == req[r].resp.body
               IN /\ Len(J) <= MAX_CHARS =>
                        /\ body.text = J
                        /\ body.partial = FALSE
                        /\ body.charCount = Len(J)
                  /\ Len(J) > MAX_CHARS =>
                        /\ Len(body.text) = MAX_CHARS
                        /\ \A i \in 1..MAX_CHARS : body.text[i] = J[i]
                        /\ body.partial = TRUE
                        /\ body.charCount = MAX_CHARS
                  /\ body.charCount = Len(body.text)
                  /\ body.partial = (Len(J) > MAX_CHARS)

\* a truncated response whose text runs over a page break
C6_Witness ==
    \E r \in Req :
        /\ req[r].pc = "done"
        /\ req[r].route = "extract"
        /\ req[r].resp.status = 200
        /\ req[r].resp.body.partial = TRUE
        /\ req[r].resp.body.charCount = MAX_CHARS
        /\ Len(req[r].pages) >= 2
        /\ req[r].resp.body.text[1] # req[r].resp.body.text[MAX_CHARS]

\* C7: clean_cell is idempotent for fixed options.
C7_CleanIdempotent ==
    twice # Unset => twice = once

\* the characters the sanitiser is said to leave: alphanumerics, accented
\* Latin letters, whitespace, "@", "." and "-"
IsLetterOrDigit(c) == IsUpper(c) \/ IsLower(c) \/ IsDigit(c)

\* C8: with sanitizeCharacters on, a cleaned value holds only alphanumerics,
\* accented Latin letters, whitespace, "@", "." and "-".
C8_SanitizedAlphabet ==
    (opts.sanitize /\ once # Unset /\ once.kind = "str")
        => \A i \in DOMAIN once.s :
              \/ IsLetterOrDigit(once.s[i])
              \/ IsSpace(once.s[i])
              \/ once.s[i] \in {"@", ".", "-"}

\* C9: a /pdf-compress request whose converter succeeded, whose output was
\* measured and whose input was removed is answered 200 with
\* gainPercent = round(100 * (1 - compressedSize / originalSize), 2) and a
\* non-null alert whenever compressedSize >= originalSize.
C9_CompressionReport ==
    \A r \in Req :
        (/\ req[r].pc = "done"
         /\ req[r].convOk
         /\ req[r].compressedSize >= 0
         /\ "scratch_delete" \in req[r].effects
         /\ ~req[r].logFailed)
            => /\ req[r].resp.status = 200
               /\ req[r].resp.body.gainPercent =
                      GainPercent(req[r].originalSize, req[r].compressedSize)
               /\ (req[r].compressedSize >= req[r].originalSize
                      => req[r].resp.body.alert # Null)

\* C10: no request is failed by the absence of "static": the before_request
\* hook never aborts a request.
C10_AbsentDirNeverFails ==
    \A r \in Req : req[r].pc = "done" => ~req[r].hookFailed

====
